---------------------------- MODULE Spec2Model ----------------------------
(***************************************************************************)
(* A model of debug.h: the leveled, location-tagged diagnostic macros      *)
(* debug / debugl / fdebug / fdebugl and their printf-like variants        *)
(* debugf / debuglf / fdebugf / fdebuglf, in the build with DEBUG defined  *)
(* (GNU C path of DEBUG_CHECK_LEVEL and FUNCTION) and in the build         *)
(* without it.                                                             *)
(*                                                                         *)
(* Text is a sequence of one-character strings.  Streams are observed      *)
(* through a log of the fprintf and fflush calls made on them.  Every      *)
(* macro expansion is executed statement by statement by a thread, so      *)
(* that two threads may interleave.                                        *)
(*                                                                         *)
(* Callers are assumed to respect fprintf's contract: a format template    *)
(* is passed together with the arguments its conversions consume.          *)
(***************************************************************************)
EXTENDS Integers, Sequences, FiniteSets

(***************************************************************************)
(* Bounds of the model.                                                    *)
(***************************************************************************)
\* width in bits of int / unsigned int (long long has twice that width)
W == 3
\* number of diagnostic statements a thread executes in one run
MaxCalls == 1

Threads == {1, 2}

(***************************************************************************)
(* Streams.  "NULL" is the null FILE pointer.                              *)
(***************************************************************************)
NULL == "NULL"
Streams == {"stderr", "F1"}
FilePointers == Streams \cup {NULL}

\* #define DEBUG_DEFAULT_STREAM stderr
DEBUG_DEFAULT_STREAM == "stderr"

(***************************************************************************)
(* Integers of the C program.  A level expression has a type (kind) and a  *)
(* value of that type.                                                     *)
(***************************************************************************)
RECURSIVE Pow2(_)
Pow2(n) == IF n = 0 THEN 1 ELSE 2 * Pow2(n - 1)

UIntMax == Pow2(W) - 1
UInts == 0 .. UIntMax
Ints == -Pow2(W - 1) .. (Pow2(W - 1) - 1)
\* a few long long values outside the range of unsigned int, and around 0
LongLongs == {-(Pow2(W) + 1), -1, 0, 1, Pow2(W), Pow2(W) + 1}

\* conversion of an integer value to unsigned int: reduction modulo 2^W
ToUnsigned(v) == v % Pow2(W)

IntLevel(v) == [kind |-> "int", val |-> v]
AllLevels == [kind : {"int"}, val : Ints]
             \cup [kind : {"unsigned"}, val : UInts]
             \cup [kind : {"longlong"}, val : LongLongs]

(***************************************************************************)
(* Text.                                                                   *)
(***************************************************************************)
Digits == <<"0", "1", "2", "3", "4", "5", "6", "7", "8", "9">>

RECURSIVE Decimal(_)
\* the decimal digits of a natural number
Decimal(n) == IF n < 10 THEN <<Digits[n + 1]>>
              ELSE Decimal(n \div 10) \o <<Digits[(n % 10) + 1]>>

\* #define debug_quote(x) _debug_quote(x) ; #define _debug_quote(x) #x
\* applied to __LINE__: the line number is expanded, then stringified
debug_quote(line) == Decimal(line)

\* __PRETTY_FUNCTION__ at the call site
FUNCTION(loc) == loc.function

\* #define LINE_LOCATION __FILE__ " " debug_quote(__LINE__) " "
\* (adjacent string literals: one string, used as the head of a format)
LINE_LOCATION(loc) == loc.file \o <<" ">> \o debug_quote(loc.line) \o <<" ">>

StrArg(s) == [n |-> 0, s |-> s, t |-> "s"]
IntArg(n) == [n |-> n, s |-> <<>>, t |-> "d"]

RECURSIVE WellFormed(_, _)
\* the format consumes exactly the arguments given, each of the right type
WellFormed(fmt, args) ==
    IF fmt = <<>> THEN args = <<>>
    ELSE IF Head(fmt) # "%" THEN WellFormed(Tail(fmt), args)
    ELSE /\ Len(fmt) >= 2
         /\ LET rest == SubSeq(fmt, 3, Len(fmt)) IN
            IF fmt[2] = "%" THEN WellFormed(rest, args)
            ELSE /\ fmt[2] \in {"s", "d"}
                 /\ args # <<>>
                 /\ Head(args).t = fmt[2]
                 /\ WellFormed(rest, Tail(args))

RECURSIVE Formatted(_, _)
\* the bytes fprintf produces for a well-formed format and its arguments
Formatted(fmt, args) ==
    IF fmt = <<>> THEN <<>>
    ELSE IF Head(fmt) # "%" THEN <<Head(fmt)>> \o Formatted(Tail(fmt), args)
    ELSE LET rest == SubSeq(fmt, 3, Len(fmt)) IN
         IF fmt[2] = "%" THEN <<"%">> \o Formatted(rest, args)
         ELSE IF fmt[2] = "s" THEN Head(args).s \o Formatted(rest, Tail(args))
         ELSE Decimal(Head(args).n) \o Formatted(rest, Tail(args))

RECURSIVE Concat(_)
Concat(chunks) == IF chunks = <<>> THEN <<>>
                  ELSE Head(chunks) \o Concat(Tail(chunks))

(***************************************************************************)
(* The call surface.                                                       *)
(***************************************************************************)
Entries == {"debug", "debugl", "fdebug", "fdebugl",
            "debugf", "debuglf", "fdebugf", "fdebuglf"}
\* entry points that reduce to fdebuglf (the others reduce to fdebugl)
FormattedEntries == {"debugf", "debuglf", "fdebugf", "fdebuglf"}
\* entry points whose caller supplies the level (the others pass 1)
ExplicitLevel == {"debugl", "fdebugl", "debuglf", "fdebuglf"}
\* entry points whose caller supplies the file (the others pass debug_stream)
ExplicitFile == {"fdebug", "fdebugl", "fdebugf", "fdebuglf"}

\* the macros defined when DEBUG is undefined
DisabledDefined == {"debug", "debugl", "debugf", "fdebug", "fdebugf",
                    "debuglf", "fdebuglf"}

NoLoc == [line |-> 0, function |-> <<>>, file |-> <<>>]
NoPayload == [args |-> <<>>, text |-> <<>>]
NoCall == [loc |-> NoLoc, file |-> NULL, id |-> 0, entry |-> "none",
           level |-> IntLevel(0), payload |-> NoPayload]

VARIABLES
    mode,             \* "enabled": DEBUG defined; "disabled": DEBUG undefined
    build,            \* "ok", or "failed": the translation unit does not build
    debug_level,      \* unsigned int debug_level
    debug_stream,     \* FILE *debug_stream
    log,              \* the fprintf / fflush calls made so far, in order
    ncalls,           \* per thread: diagnostic statements started so far
    pc,               \* per thread: position inside the macro expansion
    cur,              \* per thread: the diagnostic statement being executed
    DEBUG_LEVEL_TEMP, \* per thread: the local of DEBUG_CHECK_LEVEL
    DEBUG_FILE,       \* per thread: the local FILE *DEBUG_FILE
    widx,             \* per thread: number of the next fprintf of the body
    ev                \* per thread: evaluations of the caller's arguments

vars == <<mode, build, debug_level, debug_stream, log, ncalls, pc, cur,
          DEBUG_LEVEL_TEMP, DEBUG_FILE, widx, ev>>

NoEv == [file |-> 0, level |-> 0, payload |-> 0]


(***************************************************************************)
(* The level gate and the destination check.                               *)
(***************************************************************************)
\* variant: every file is replaced by the default stream
DEBUG_CHECK_FILE_AlwaysDefault(file) == DEBUG_DEFAULT_STREAM

\* variant: a null file falls back to the global debug_stream first
DEBUG_CHECK_FILE_GlobalFirst(file) ==
    IF file # NULL THEN file
    ELSE IF debug_stream # NULL THEN debug_stream ELSE DEBUG_DEFAULT_STREAM

\* #define DEBUG_CHECK_FILE(file) (file != NULL) ? file : DEBUG_DEFAULT_STREAM
DEBUG_CHECK_FILE(file) == IF file # NULL THEN file ELSE DEBUG_DEFAULT_STREAM

\* variant: the comparison with the threshold is strict
DEBUG_CHECK_LEVEL_Strict(level, threshold) ==
    /\ IF level.kind = "longlong" THEN level.val < threshold
       ELSE ToUnsigned(level.val) < threshold
    /\ level.val > 0

\* variant: the level is first cast to unsigned int (the gate written for
\* compilers without __typeof__)
DEBUG_CHECK_LEVEL_Unsigned(level, threshold) ==
    /\ ToUnsigned(level.val) <= threshold
    /\ ToUnsigned(level.val) > 0

\* variant: the test  DEBUG_LEVEL_TEMP > 0  is missing
DEBUG_CHECK_LEVEL_NoPositive(level, threshold) ==
    IF level.kind = "longlong" THEN level.val <= threshold
    ELSE ToUnsigned(level.val) <= threshold

\* GNU C:  __typeof__((level)) DEBUG_LEVEL_TEMP = level;
\*         if( DEBUG_LEVEL_TEMP <= debug_level && DEBUG_LEVEL_TEMP > 0 )
\* DEBUG_LEVEL_TEMP keeps the type of the level.  In the comparison with the
\* unsigned int debug_level an int is converted to unsigned int, while the
\* unsigned int is converted to long long when the level is a long long;
\* the comparison with the literal 0 is made in the level's own type.
DEBUG_CHECK_LEVEL(level, threshold) ==
    /\ IF level.kind = "longlong" THEN level.val <= threshold
       ELSE ToUnsigned(level.val) <= threshold
    /\ level.val > 0

\* fdebugl: fprintf( DEBUG_CHECK_FILE(DEBUG_FILE), ... )
\* fdebuglf: fprintf( DEBUG_FILE, ... )
FprintfTarget(entry, file) ==
    IF entry \in FormattedEntries THEN file ELSE DEBUG_CHECK_FILE(file)

\* variant: the flush goes to the default stream
FflushTarget_Default(file) == DEBUG_DEFAULT_STREAM

\* fflush( DEBUG_FILE )
FflushTarget(file) == file

(***************************************************************************)
(* The fprintf calls of one statement, as the bytes each one writes.       *)
(***************************************************************************)
\* variant: the location and the string are written by two fprintf calls
fdebugl_writes_Split(loc, string) ==
    << Formatted(LINE_LOCATION(loc) \o <<"%", "s", ":", " ">>,
                 <<StrArg(FUNCTION(loc))>>),
       Formatted(<<"%", "s", "\n">>, <<StrArg(string)>>) >>

\* fprintf( ..., LINE_LOCATION "%s: %s\n", FUNCTION, string )
fdebugl_writes(loc, string) ==
    << Formatted(LINE_LOCATION(loc) \o <<"%", "s", ":", " ", "%", "s", "\n">>,
                 <<StrArg(FUNCTION(loc)), StrArg(string)>>) >>

\* variant: the closing newline is not written
fdebuglf_writes_NoNewline(loc, text, args) ==
    << Formatted(LINE_LOCATION(loc) \o <<"%", "s", ":", " ">>,
                 <<StrArg(FUNCTION(loc))>>),
       Formatted(text, args) >>

\* fprintf( DEBUG_FILE, LINE_LOCATION "%s: ", FUNCTION);
\* fprintf( DEBUG_FILE, __VA_ARGS__ );
\* fprintf( DEBUG_FILE, "\n" );
fdebuglf_writes(loc, text, args) ==
    << Formatted(LINE_LOCATION(loc) \o <<"%", "s", ":", " ">>,
                 <<StrArg(FUNCTION(loc))>>),
       Formatted(text, args),
       Formatted(<<"\n">>, <<>>) >>

Writes(c) ==
    IF c.entry \in FormattedEntries
    THEN fdebuglf_writes(c.loc, c.payload.text, c.payload.args)
    ELSE fdebugl_writes(c.loc, c.payload.text)

\* the fprintf whose argument list holds the caller's payload
PayloadAt(entry) == IF entry \in FormattedEntries THEN 2 ELSE 1

\* the file expression the entry point hands to fdebugl / fdebuglf
FileArgument(c) == IF c.entry \in ExplicitFile THEN c.file ELSE debug_stream

WriteEvent(t, id, stream, data) ==
    [stream |-> stream, data |-> data, call |-> id, thread |-> t,
     op |-> "write"]
FlushEvent(t, id, stream) ==
    [stream |-> stream, data |-> <<>>, call |-> id, thread |-> t,
     op |-> "flush"]

(***************************************************************************)
(* Initial states.                                                         *)
(***************************************************************************)
\* unsigned int debug_level=(unsigned int)DEBUG_LEVEL;  or  (unsigned int)1
\* FILE *debug_stream=NULL;
InitOver(modes, macroLevels) ==
    /\ mode \in modes
    /\ build = "ok"
    /\ debug_level \in {ToUnsigned(d) : d \in macroLevels} \cup {ToUnsigned(1)}
    /\ debug_stream = NULL
    /\ log = <<>>
    /\ ncalls = [t \in Threads |-> 0]
    /\ pc = [t \in Threads |-> "idle"]
    /\ cur = [t \in Threads |-> NoCall]
    /\ DEBUG_LEVEL_TEMP = [t \in Threads |-> IntLevel(0)]
    /\ DEBUG_FILE = [t \in Threads |-> NULL]
    /\ widx = [t \in Threads |-> 0]
    /\ ev = [t \in Threads |-> NoEv]

(***************************************************************************)
(* The host program assigns the globals between its statements.            *)
(***************************************************************************)
SetLevel(v) ==
    /\ build = "ok"
    /\ \A t \in Threads : pc[t] = "idle"
    /\ v # debug_level
    /\ debug_level' = v
    /\ UNCHANGED <<mode, build, debug_stream, log, ncalls, pc, cur,
                   DEBUG_LEVEL_TEMP, DEBUG_FILE, widx, ev>>

SetStream(f) ==
    /\ build = "ok"
    /\ \A t \in Threads : pc[t] = "idle"
    /\ f # debug_stream
    /\ debug_stream' = f
    /\ UNCHANGED <<mode, build, debug_level, log, ncalls, pc, cur,
                   DEBUG_LEVEL_TEMP, DEBUG_FILE, widx, ev>>

(***************************************************************************)
(* A diagnostic statement in the build with DEBUG defined.                 *)
(***************************************************************************)
\* thread t reaches the statement  e(lv, f, p)  written at loc; the level
\* of debug/fdebug/debugf/fdebugf is the literal 1 of the macro body
Call(t, e, lv, f, p, loc) ==
    /\ mode = "enabled"
    /\ build = "ok"
    /\ pc[t] = "idle"
    /\ ncalls[t] < MaxCalls
    /\ WellFormed(p.text, p.args)
    /\ ncalls' = [ncalls EXCEPT ![t] = @ + 1]
    /\ cur' = [cur EXCEPT ![t] =
                 [loc |-> loc,
                  file |-> IF e \in ExplicitFile THEN f ELSE NULL,
                  id |-> ncalls[t] + 1, entry |-> e,
                  level |-> IF e \in ExplicitLevel THEN lv ELSE IntLevel(1),
                  payload |-> p]]
    /\ ev' = [ev EXCEPT ![t] = NoEv]
    /\ pc' = [pc EXCEPT ![t] = "gate"]
    /\ UNCHANGED <<mode, build, debug_level, debug_stream, log,
                   DEBUG_LEVEL_TEMP, DEBUG_FILE, widx>>

\* DEBUG_CHECK_LEVEL(level) { ... }: the level is evaluated once, into
\* DEBUG_LEVEL_TEMP (__typeof__ does not evaluate its operand)
CheckLevel(t) ==
    /\ pc[t] = "gate"
    /\ DEBUG_LEVEL_TEMP' = [DEBUG_LEVEL_TEMP EXCEPT ![t] = cur[t].level]
    /\ ev' = [ev EXCEPT ![t].level =
                 IF cur[t].entry \in ExplicitLevel THEN @ + 1 ELSE @]
    /\ pc' = [pc EXCEPT ![t] =
                 IF DEBUG_CHECK_LEVEL(cur[t].level, debug_level)
                 THEN "file" ELSE "ret"]
    /\ UNCHANGED <<mode, build, debug_level, debug_stream, log, ncalls, cur,
                   DEBUG_FILE, widx>>

\* FILE *DEBUG_FILE = file;  DEBUG_FILE = DEBUG_CHECK_FILE( DEBUG_FILE );
ResolveFile(t) ==
    /\ pc[t] = "file"
    /\ DEBUG_FILE' = [DEBUG_FILE EXCEPT ![t] =
                         DEBUG_CHECK_FILE(FileArgument(cur[t]))]
    /\ ev' = [ev EXCEPT ![t].file =
                 IF cur[t].entry \in ExplicitFile THEN @ + 1 ELSE @]
    /\ widx' = [widx EXCEPT ![t] = 1]
    /\ pc' = [pc EXCEPT ![t] = "write"]
    /\ UNCHANGED <<mode, build, debug_level, debug_stream, log, ncalls, cur,
                   DEBUG_LEVEL_TEMP>>

\* the next fprintf of the body; the payload is evaluated by the fprintf
\* whose argument list holds it
Write(t) ==
    /\ pc[t] = "write"
    /\ log' = Append(log, WriteEvent(t, cur[t].id,
                        FprintfTarget(cur[t].entry, DEBUG_FILE[t]),
                        Writes(cur[t])[widx[t]]))
    /\ ev' = [ev EXCEPT ![t].payload =
                 IF widx[t] = PayloadAt(cur[t].entry) THEN @ + 1 ELSE @]
    /\ widx' = [widx EXCEPT ![t] = @ + 1]
    /\ pc' = [pc EXCEPT ![t] =
                 IF widx[t] = Len(Writes(cur[t])) THEN "flush" ELSE "write"]
    /\ UNCHANGED <<mode, build, debug_level, debug_stream, ncalls, cur,
                   DEBUG_LEVEL_TEMP, DEBUG_FILE>>

\* fflush( DEBUG_FILE );
Flush(t) ==
    /\ pc[t] = "flush"
    /\ log' = Append(log, FlushEvent(t, cur[t].id, FflushTarget(DEBUG_FILE[t])))
    /\ pc' = [pc EXCEPT ![t] = "ret"]
    /\ UNCHANGED <<mode, build, debug_level, debug_stream, ncalls, cur,
                   DEBUG_LEVEL_TEMP, DEBUG_FILE, widx, ev>>

\* the end of the do { ... } while(0): the locals go out of scope
Return(t) ==
    /\ pc[t] = "ret"
    /\ pc' = [pc EXCEPT ![t] = "idle"]
    /\ cur' = [cur EXCEPT ![t] = NoCall]
    /\ DEBUG_LEVEL_TEMP' = [DEBUG_LEVEL_TEMP EXCEPT ![t] = IntLevel(0)]
    /\ DEBUG_FILE' = [DEBUG_FILE EXCEPT ![t] = NULL]
    /\ widx' = [widx EXCEPT ![t] = 0]
    /\ ev' = [ev EXCEPT ![t] = NoEv]
    /\ UNCHANGED <<mode, build, debug_level, debug_stream, log, ncalls>>

(***************************************************************************)
(* A diagnostic statement in the build with DEBUG undefined.               *)
(***************************************************************************)
\* #define debug(string) do{}while(0)  and the six other dummy macros: the
\* statement expands to nothing.  An entry point without a dummy macro is
\* an undeclared identifier: the translation unit does not build.
DisabledStatement(t, e) ==
    /\ mode = "disabled"
    /\ build = "ok"
    /\ pc[t] = "idle"
    /\ ncalls[t] < MaxCalls
    /\ ncalls' = [ncalls EXCEPT ![t] = @ + 1]
    /\ build' = IF e \in DisabledDefined THEN "ok" ELSE "failed"
    /\ cur' = [cur EXCEPT ![t] = [NoCall EXCEPT !.entry = e]]
    /\ UNCHANGED <<mode, debug_level, debug_stream, log, pc,
                   DEBUG_LEVEL_TEMP, DEBUG_FILE, widx, ev>>

(***************************************************************************)
(* Inputs.                                                                 *)
(***************************************************************************)
\* values of the build-time macro DEBUG_LEVEL
MacroLevels == {0, 2}
Thresholds == {0, 1, 2}
Levels == {IntLevel(v) : v \in {-1, 0, 1, 2}}

Literal(s) == [args |-> <<>>, text |-> s]
LiteralPayloads == {Literal(<<"h">>), Literal(<<"%", "%">>)}
FormatPayloads == {[args |-> <<>>, text |-> <<"h">>],
                   [args |-> <<>>, text |-> <<"%", "%">>],
                   [args |-> <<IntArg(7)>>, text |-> <<"n", "%", "d">>]}
PayloadsOf(e) == IF e \in FormattedEntries THEN FormatPayloads
                 ELSE LiteralPayloads

\* the arguments an entry point takes: the others are fixed by its macro
LevelsOf(e, levels) == IF e \in ExplicitLevel THEN levels ELSE {IntLevel(1)}
FilesOf(e, files) == IF e \in ExplicitFile THEN files ELSE {NULL}

Locations == {[line |-> 42, function |-> <<"r">>, file |-> <<"m">>],
              [line |-> 7, function |-> <<"r">>, file |-> <<"a", "%", "%">>]}

(***************************************************************************)
(* Spec: one thread executes diagnostic statements one after the other,    *)
(* and assigns the globals in between.                                     *)
(***************************************************************************)
Init == InitOver({"enabled", "disabled"}, MacroLevels)

Next ==
    \/ \E v \in Thresholds : SetLevel(v)
    \/ \E f \in FilePointers : SetStream(f)
    \/ \E e \in Entries, loc \in Locations :
          \E lv \in LevelsOf(e, Levels), f \in FilesOf(e, FilePointers),
             p \in PayloadsOf(e) : Call(1, e, lv, f, p, loc)
    \/ CheckLevel(1)
    \/ ResolveFile(1)
    \/ Write(1)
    \/ Flush(1)
    \/ Return(1)
    \/ \E e \in Entries : DisabledStatement(1, e)

Spec == Init /\ [][Next]_vars

(***************************************************************************)
(* SpecGate: one thread, every level type and value against every          *)
(* threshold an unsigned int can hold.                                     *)
(***************************************************************************)
GatePayloadsOf(e) == IF e \in FormattedEntries
                     THEN {[args |-> <<IntArg(7)>>, text |-> <<"n", "%", "d">>]}
                     ELSE {Literal(<<"h">>)}
GateLocation == [line |-> 42, function |-> <<"r">>, file |-> <<"m">>]

InitGate == InitOver({"enabled"}, Ints \cup UInts)

NextGate ==
    \/ \E e \in Entries :
          \E lv \in LevelsOf(e, AllLevels), f \in FilesOf(e, {NULL, "F1"}),
             p \in GatePayloadsOf(e) : Call(1, e, lv, f, p, GateLocation)
    \/ CheckLevel(1)
    \/ ResolveFile(1)
    \/ Write(1)
    \/ Flush(1)
    \/ Return(1)

SpecGate == InitGate /\ [][NextGate]_vars

(***************************************************************************)
(* SpecConc: two threads, one diagnostic statement each, interleaved at    *)
(* the granularity of the stdio calls (each fprintf is atomic).            *)
(***************************************************************************)
ConcEntries == {"debug", "fdebugl", "debugf", "fdebuglf"}
ConcLocation(t) == [line |-> IF t = 1 THEN 42 ELSE 7,
                    function |-> <<"r">>, file |-> <<"m">>]

InitConc == InitOver({"enabled"}, {1, 2})

NextConc ==
    \E t \in Threads :
        \/ \E e \in ConcEntries :
              \E lv \in LevelsOf(e, {IntLevel(1), IntLevel(2)}),
                 f \in FilesOf(e, {NULL, "F1"}),
                 p \in GatePayloadsOf(e) : Call(t, e, lv, f, p, ConcLocation(t))
        \/ CheckLevel(t)
        \/ ResolveFile(t)
        \/ Write(t)
        \/ Flush(t)

SpecConc == InitConc /\ [][NextConc]_vars

(***************************************************************************)
(* Observations used by the properties.                                    *)
(***************************************************************************)
\* the stdio calls made so far by the statement thread t is executing
CallEvents(t) ==
    SelectSeq(log, LAMBDA e : e.thread = t /\ e.call = cur[t].id)
IsWrite(e) == e.op = "write"
CallWrites(t) == SelectSeq(CallEvents(t), IsWrite)

RECURSIVE Bytes(_)
\* the bytes written by a sequence of events
Bytes(events) == IF events = <<>> THEN <<>>
                 ELSE Head(events).data \o Bytes(Tail(events))

CallBytes(t) == Bytes(CallWrites(t))
Emitted(t) == CallWrites(t) # <<>>
\* the bytes stream s has received
Content(s) == Bytes(SelectSeq(log, LAMBDA e : e.op = "write" /\ e.stream = s))

Returned(t) == pc[t] = "ret"
L(t) == cur[t].level.val

\* the message of a statement: the string, or the template with its
\* arguments applied
Message(c) == IF c.entry \in FormattedEntries
              THEN Formatted(c.payload.text, c.payload.args)
              ELSE c.payload.text

\* <file> <line> <function>: <message>\n
ExpectedLine(loc, message) ==
    loc.file \o <<" ">> \o Decimal(loc.line) \o <<" ">> \o loc.function
    \o <<":", " ">> \o message \o <<"\n">>

HasPercent(text) == \E i \in 1 .. Len(text) : text[i] = "%"

(***************************************************************************)
(* Properties.                                                             *)
(***************************************************************************)

C2_DisabledIsNoOp ==
    mode = "disabled" =>
        /\ build = "ok"
        /\ log = <<>>
        /\ \A t \in Threads : ev[t] = NoEv

\* C3: a statement that passed the gate has written exactly the bytes
\* <file> <line> <function>: <message>\n  when it returns.
C3_ExactLine ==
    \A t \in Threads :
        (Returned(t) /\ Emitted(t))
            => CallBytes(t) = ExpectedLine(cur[t].loc, Message(cur[t]))

\* C4 (as stated): a null explicit file sends the line to the stream held in
\* debug_stream.
C4_NullFileGoesToDebugStream ==
    \A t \in Threads :
        (cur[t].entry \in ExplicitFile /\ cur[t].file = NULL)
            => \A i \in 1 .. Len(CallEvents(t)) :
                   CallEvents(t)[i].stream = debug_stream

\* C4 (amended): a null explicit file sends the line to standard error
\* (DEBUG_DEFAULT_STREAM), whatever debug_stream holds.
C4_NullFileGoesToStderr ==
    \A t \in Threads :
        (cur[t].entry \in ExplicitFile /\ cur[t].file = NULL)
            => /\ \A i \in 1 .. Len(CallEvents(t)) :
                      CallEvents(t)[i].stream = "stderr"
               /\ (Returned(t) /\ DEBUG_CHECK_LEVEL(cur[t].level, debug_level))
                      => Emitted(t)

\* a null explicit file after debug_stream was set to another stream
C4_Witness ==
    \E t \in Threads :
        /\ Returned(t) /\ Emitted(t)
        /\ cur[t].entry \in ExplicitFile /\ cur[t].file = NULL
        /\ debug_stream = "F1"

\* C5 (as stated): a formatted statement with template S and no further
\* argument writes the line the literal-string statement writes for S.
C5_TemplateAloneIsLiteral ==
    \A t \in Threads :
        (/\ Returned(t) /\ Emitted(t)
         /\ cur[t].entry \in FormattedEntries
         /\ cur[t].payload.args = <<>>)
            => CallBytes(t)
                   = Concat(fdebugl_writes(cur[t].loc, cur[t].payload.text))

\* C5 (amended): the same, for every S that holds no '%'.
C5_PlainTemplateIsLiteral ==
    \A t \in Threads :
        (/\ Returned(t) /\ Emitted(t)
         /\ cur[t].entry \in FormattedEntries
         /\ cur[t].payload.args = <<>>
         /\ ~HasPercent(cur[t].payload.text))
            => CallBytes(t)
                   = Concat(fdebugl_writes(cur[t].loc, cur[t].payload.text))

C5_Witness ==
    \E t \in Threads :
        /\ Returned(t) /\ Emitted(t)
        /\ cur[t].entry \in FormattedEntries
        /\ cur[t].payload.args = <<>>
        /\ cur[t].payload.text = <<"h">>

\* C6: a statement with a negative level makes no stdio call, for every
\* threshold, the largest unsigned int included.
C6_NegativeNeverEmits ==
    \A t \in Threads : L(t) < 0 => CallEvents(t) = <<>>

\* an int level that converts to a value not above the threshold
C6_Witness ==
    \E t \in Threads :
        /\ Returned(t)
        /\ cur[t].level.kind = "int" /\ L(t) < 0
        /\ ToUnsigned(L(t)) <= debug_level
        /\ debug_level = UIntMax

\* C7: with a non-null explicit file F, every fprintf and the fflush of the
\* statement are made on F, and a statement that passed the gate made them.
C7_ExplicitFileIsUsed ==
    \A t \in Threads :
        (cur[t].entry \in ExplicitFile /\ cur[t].file # NULL)
            => /\ \A i \in 1 .. Len(CallEvents(t)) :
                      CallEvents(t)[i].stream = cur[t].file
               /\ (Returned(t) /\ DEBUG_CHECK_LEVEL(cur[t].level, debug_level))
                      => Emitted(t)

\* F differs from a non-null debug_stream
C7_Witness ==
    \E t \in Threads :
        /\ Returned(t) /\ Emitted(t)
        /\ cur[t].entry \in ExplicitFile /\ cur[t].file # NULL
        /\ debug_stream # NULL /\ debug_stream # cur[t].file

\* C8: nothing is written before the gate and the resolution of the file;
\* a statement that passed the gate returns after its fprintf calls, in
\* the order of the macro body, followed by exactly one fflush, all on the
\* one resolved non-null stream.
C8_WritesThenOneFlush ==
    \A t \in Threads :
        /\ pc[t] \in {"gate", "file"} => CallEvents(t) = <<>>
        /\ (Returned(t) /\ DEBUG_CHECK_LEVEL(cur[t].level, debug_level))
               => CallEvents(t) # <<>>
        /\ (Returned(t) /\ CallEvents(t) # <<>>) =>
              LET es == CallEvents(t)
                  n == Len(es)
              IN /\ es[n].op = "flush"
                 /\ \A i \in 1 .. (n - 1) : es[i].op = "write"
                 /\ n - 1 = (IF cur[t].entry \in FormattedEntries THEN 3 ELSE 1)
                 /\ cur[t].entry \in FormattedEntries =>
                       /\ es[2].data = Message(cur[t])
                       /\ es[3].data = <<"\n">>
                       /\ es[1].data # <<>>
                 /\ DEBUG_FILE[t] # NULL
                 /\ \A i \in 1 .. n : es[i].stream = DEBUG_FILE[t]

\* a formatted statement on a stream other than standard error
C8_Witness ==
    \E t \in Threads :
        /\ Returned(t)
        /\ cur[t].entry \in FormattedEntries
        /\ Len(CallEvents(t)) = 4
        /\ DEBUG_FILE[t] = "F1"

\* both threads have returned from statements that emitted on stream s
BothEmittedOn(s) ==
    \A t \in Threads : Returned(t) /\ Emitted(t) /\ DEBUG_FILE[t] = s

\* C9 (as stated): after two concurrent statements on the same stream, the
\* stream holds two complete lines, one per statement, in some order.
C9_TwoCompleteLines ==
    \A s \in Streams :
        BothEmittedOn(s) =>
            LET l1 == ExpectedLine(cur[1].loc, Message(cur[1]))
                l2 == ExpectedLine(cur[2].loc, Message(cur[2]))
            IN Content(s) \in {l1 \o l2, l2 \o l1}

\* C9 (amended): the same when both statements are literal-string ones; a
\* line is what the statement writes when it runs alone.
C9_TwoCompleteLiteralLines ==
    \A s \in Streams :
        (/\ BothEmittedOn(s)
         /\ \A t \in Threads : cur[t].entry \notin FormattedEntries)
            => LET l1 == Concat(fdebugl_writes(cur[1].loc, cur[1].payload.text))
                   l2 == Concat(fdebugl_writes(cur[2].loc, cur[2].payload.text))
               IN Content(s) \in {l1 \o l2, l2 \o l1}

\* two literal-string statements on standard error, thread 2 writing first
C9_Witness ==
    /\ BothEmittedOn("stderr")
    /\ \A t \in Threads : cur[t].entry \notin FormattedEntries
    /\ log[1].thread = 2

\* C10, the suppressed statement: it has evaluated its level once, neither
\* its file nor its payload, and has made no stdio call.
C10_SuppressedState ==
    \A t \in Threads :
        (Returned(t) /\ ~(0 < L(t) /\ L(t) <= debug_level)) =>
            /\ CallEvents(t) = <<>>
            /\ ev[t].level = (IF cur[t].entry \in ExplicitLevel THEN 1 ELSE 0)
            /\ ev[t].file = 0
            /\ ev[t].payload = 0

\* C10, the frame: no step of a diagnostic statement changes debug_level or
\* debug_stream.
C10_Frame ==
    (\E t \in Threads : pc[t] # "idle" \/ pc'[t] # "idle")
        => UNCHANGED <<debug_level, debug_stream>>

\* C10: a suppressed statement only evaluates its level, and no statement,
\* emitting or suppressed, changes debug_level or debug_stream.
C10_SuppressedHasNoEffect == [](C10_SuppressedState) /\ [][C10_Frame]_vars

\* a suppressed statement with an explicit level and file, above a
\* threshold that was assigned at run time
C10_Witness ==
    \E t \in Threads :
        /\ Returned(t)
        /\ cur[t].entry = "fdebuglf"
        /\ L(t) > debug_level
        /\ debug_stream = "F1"
        /\ ev[t].level = 1

==========================================================================
